---- MODULE Spec2Model ----
(***************************************************************************)
(* The combat resolution engine of game/src/combat.rs: the Combat session  *)
(* (initiative order, turn and round counters, phase), the per-entity      *)
(* Combatant/Character records the systems query, the attack events the     *)
(* turn handler emits, their resolution into damage events and hit-point   *)
(* changes, and the status-effect ledger.                                  *)
(***************************************************************************)
EXTENDS Integers, Sequences, FiniteSets, TLC

\* ------------------------------------------------------------------ bounds
MaxCombatants == 2      \* longest combatant list built with add_combatant
MaxTurn == 3            \* the turn counter is explored up to this value
MaxActions == 1         \* largest actions_remaining a combatant starts with

Entities == {1, 2}      \* entity ids (bevy Entity)
DieFaces == {1, 3, 6}   \* the faces of the initiative d6 that are explored

\* ----------------------------------------------------------------- values
None == 0               \* Option::None of current_combatant
NoIndex == -1           \* Option::None of Iterator::position

CombatStates == {"Initiative", "PlayerTurn", "EnemyTurn", "Victory", "Defeat"}

VARIABLES
    combat,          \* the Combat component (the one session)
    characters,      \* entity -> its Combatant and Character fields; the
                     \* domain is the set of entities the queries match
    attack_events,   \* AttackEvents sent and not yet read, in order
    panicked,        \* a system panicked: the application is gone
    tick_rolls,      \* how many times a tick has called roll_initiative
    lastOp,          \* the operation that produced this state
    sheets,          \* entity -> the Character fields attack resolution reads
    damage_events,   \* DamageEvents sent and not yet read, in order
    status_effects,  \* entity -> Combatant::status_effects
    attack_rolls,    \* the roll_attack calls of the last step, with their
                     \* locals and results
    ability,         \* one ability score of a CharacterStats: the dice it was
                     \* rolled with, and its modifiers once they are computed
    advances         \* since the last roll_initiative: the position made
                     \* current and the round, after the roll and after
                     \* each next_turn call that followed it

\* the state of attack resolution and of the status ledger
resolution ==
    <<sheets, damage_events, status_effects, attack_rolls, ability, advances>>

vars == <<combat, characters, attack_events, panicked, tick_rolls, lastOp,
          sheets, damage_events, status_effects, attack_rolls, ability,
          advances>>

\* ------------------------------------------------------------ pure helpers
get_dexterity_modifier(dexterity) ==
    CASE dexterity = 3 -> -3
      [] dexterity \in 4..5 -> -2
      [] dexterity \in 6..8 -> -1
      [] dexterity \in 9..12 -> 0
      [] dexterity \in 13..15 -> 1
      [] dexterity \in 16..17 -> 2
      [] dexterity = 18 -> 3
      [] OTHER -> 0

Range(v) == {v[i] : i \in 1..Len(v)}

Seqs(n) == UNION {[1..k -> Entities] : k \in 0..n}

\* faulty variant: an empty list yields a placeholder entity instead of None
first_or_placeholder(v) == IF v = <<>> THEN 1 ELSE v[1]

\* Vec::first().copied()
first(v) == IF v = <<>> THEN None ELSE v[1]

\* Iterator::position: the 0-based index of the first match
position(v, e) ==
    IF \E i \in 1..Len(v) : v[i] = e
    THEN (CHOOSE i \in 1..Len(v) :
              v[i] = e /\ \A j \in 1..(i - 1) : v[j] # e) - 1
    ELSE NoIndex

\* faulty variant: x goes in front of the elements that tie with it
RECURSIVE insert_unstable(_, _, _)
insert_unstable(sorted, x, chars) ==
    IF sorted = <<>> THEN <<x>>
    ELSE IF chars[Head(sorted)].initiative > chars[x].initiative
         THEN <<Head(sorted)>> \o insert_unstable(Tail(sorted), x, chars)
         ELSE <<x>> \o sorted

\* one step of the stable sort with the comparator b_init.cmp(&a_init):
\* x goes behind every element whose initiative is >= its own
RECURSIVE insert_stable(_, _, _)
insert_stable(sorted, x, chars) ==
    IF sorted = <<>> THEN <<x>>
    ELSE IF chars[Head(sorted)].initiative >= chars[x].initiative
         THEN <<Head(sorted)>> \o insert_stable(Tail(sorted), x, chars)
         ELSE <<x>> \o sorted

\* slice::sort_by (stable); the comparator is never called on a slice of
\* fewer than two elements
RECURSIVE sort_by(_, _)
sort_by(v, chars) ==
    IF v = <<>> THEN <<>>
    ELSE insert_stable(sort_by(SubSeq(v, 1, Len(v) - 1), chars), v[Len(v)], chars)

\* the comparator's characters.get(..).unwrap() panics on an entity the
\* query does not match; every element of a slice of two or more is compared
sort_panics(v, chars) ==
    Len(v) >= 2 /\ \E i \in 1..Len(v) : v[i] \notin DOMAIN chars

\* ------------------------------------------------------- Combat's methods
\* faulty variant: the counters start at 0
new_from_zero ==
    [round |-> 0, turn |-> 0, combatants |-> <<>>, initiative_order |-> <<>>,
     current_combatant |-> None, state |-> "Initiative"]

new ==
    [round |-> 1, turn |-> 1, combatants |-> <<>>, initiative_order |-> <<>>,
     current_combatant |-> None, state |-> "Initiative"]

\* faulty variant: the new id is inserted at the front instead of pushed
add_combatant_front(c, entity) ==
    [c EXCEPT !.combatants = <<entity>> \o @]

add_combatant(c, entity) ==
    [c EXCEPT !.combatants = Append(@, entity)]

\* faulty variant: the dexterity modifier is not added to the die
roll_all_die_only(chars, rolls) ==
    [e \in DOMAIN chars |-> [chars[e] EXCEPT !.initiative = rolls[e]]]

\* the first loop of roll_initiative: one d6 plus the dexterity modifier
roll_all(chars, rolls) ==
    [e \in DOMAIN chars |->
        [chars[e] EXCEPT !.initiative =
            rolls[e] + get_dexterity_modifier(chars[e].dexterity)]]

\* faulty variant: the phase is left as it was
roll_initiative_keeps_state(c, chars) ==
    LET order == sort_by(c.combatants, chars)
    IN  [c EXCEPT !.initiative_order = order,
                  !.current_combatant = first(order)]

\* the rest of roll_initiative, given the rolled records
roll_initiative(c, chars) ==
    LET order == sort_by(c.combatants, chars)
    IN  [c EXCEPT !.initiative_order = order,
                  !.current_combatant = first(order),
                  !.state = "PlayerTurn"]

\* faulty variant: the index stops at the end of the order instead of wrapping
next_index_saturating(current_index, len) ==
    IF current_index + 1 < len THEN current_index + 1 ELSE current_index

next_index_of(current_index, len) == (current_index + 1) % len

\* faulty variant: a wrap is detected by the index having gone down
wrapped_by_compare(current_index, next_index) == next_index < current_index

wrapped(current_index, next_index) == next_index = 0

\* the two `if let`s of next_turn: the index of the current combatant in the
\* initiative order, NoIndex when there is none
found_index(c) ==
    IF c.current_combatant = None THEN NoIndex
    ELSE position(c.initiative_order, c.current_combatant)

\* faulty variant: the turn counter restarts with each round
advance_restarts_turn(c, current_index) ==
    LET next_index == next_index_of(current_index, Len(c.initiative_order))
    IN  [c EXCEPT !.current_combatant = c.initiative_order[next_index + 1],
                  !.turn = IF wrapped(current_index, next_index)
                           THEN 1 ELSE @ + 1,
                  !.round = IF wrapped(current_index, next_index)
                            THEN @ + 1 ELSE @]

\* the body of next_turn once the index is found
advance(c, current_index) ==
    LET next_index == next_index_of(current_index, Len(c.initiative_order))
    IN  [c EXCEPT !.current_combatant = c.initiative_order[next_index + 1],
                  !.turn = @ + 1,
                  !.round = IF wrapped(current_index, next_index)
                            THEN @ + 1 ELSE @]

\* faulty variant: the turn counter is incremented outside the `if let`s
next_turn_counts_always(c) ==
    IF found_index(c) = NoIndex THEN [c EXCEPT !.turn = @ + 1]
    ELSE advance(c, found_index(c))

next_turn(c) ==
    IF found_index(c) = NoIndex THEN c ELSE advance(c, found_index(c))

\* ------------------------------------------------------ the turn handler
\* faulty variant: the last action is not counted
player_can_act_above_one(combatant) ==
    combatant.is_player /\ combatant.actions_remaining > 1

player_can_act(combatant) ==
    combatant.is_player /\ combatant.actions_remaining > 0

\* faulty variant: the enemy's last action is not counted
enemy_can_act_above_one(combatant) ==
    ~combatant.is_player /\ combatant.actions_remaining > 1

\* faulty variant: an enemy acts whether or not it has an action left
enemy_acts_without_actions(combatant) == ~combatant.is_player

\* the test of the EnemyTurn arm
enemy_can_act(combatant) ==
    ~combatant.is_player /\ combatant.actions_remaining > 0

\* the events perform_ai_action sends: one, if the query holds a player
perform_ai_action(enemy, chars) ==
    IF \E e \in DOMAIN chars : chars[e].is_player
    THEN <<[attacker |-> enemy, target |-> enemy, weapon |-> "sword"]>>
    ELSE <<>>

\* ------------------------------------------------------ attack resolution
NoWeapon == "-"         \* Option::None of an attack's weapon

\* the weapon names that are explored: the seven of the damage table, the
\* sixth melee name, a name in neither list, and two names in other case
WeaponNames ==
    {"sword", "axe", "mace", "dagger", "staff", "bow", "crossbow",
     "hammer", "club", "Sword", "DAGGER"}

Weapons == WeaponNames \cup {NoWeapon}

D20 == 1..20            \* rng.gen_range(1..=20)

\* str::to_lowercase on the explored names
to_lowercase(name) ==
    CASE name = "Sword" -> "sword"
      [] name = "DAGGER" -> "dagger"
      [] OTHER -> name

\* faulty variant: a score of 18 gives the modifier of 16-17
get_strength_modifier_flat(strength) ==
    CASE strength = 3 -> -3
      [] strength \in 4..5 -> -2
      [] strength \in 6..8 -> -1
      [] strength \in 9..12 -> 0
      [] strength \in 13..15 -> 1
      [] strength \in 16..18 -> 2
      [] OTHER -> 0

get_strength_modifier(strength) ==
    CASE strength = 3 -> -3
      [] strength \in 4..5 -> -2
      [] strength \in 6..8 -> -1
      [] strength \in 9..12 -> 0
      [] strength \in 13..15 -> 1
      [] strength \in 16..17 -> 2
      [] strength = 18 -> 3
      [] OTHER -> 0

\* faulty variant: constitution uses the strength table
get_constitution_modifier_as_strength(constitution) ==
    CASE constitution = 3 -> -3
      [] constitution \in 4..5 -> -2
      [] constitution \in 6..8 -> -1
      [] constitution \in 9..12 -> 0
      [] constitution \in 13..15 -> 1
      [] constitution \in 16..17 -> 2
      [] constitution = 18 -> 3
      [] OTHER -> 0

get_constitution_modifier(constitution) ==
    CASE constitution = 3 -> -2
      [] constitution \in 4..5 -> -1
      [] constitution \in 6..8 -> -1
      [] constitution \in 9..12 -> 0
      [] constitution \in 13..15 -> 1
      [] constitution \in 16..17 -> 2
      [] constitution = 18 -> 2
      [] OTHER -> 0

\* one step of Vec::sort: x goes in front of the first larger element
RECURSIVE insert_sorted(_, _)
insert_sorted(sorted, x) ==
    IF sorted = <<>> THEN <<x>>
    ELSE IF Head(sorted) <= x
         THEN <<Head(sorted)>> \o insert_sorted(Tail(sorted), x)
         ELSE <<x>> \o sorted

\* Vec::sort: ascending
RECURSIVE sort(_)
sort(v) ==
    IF v = <<>> THEN <<>>
    ELSE insert_sorted(sort(SubSeq(v, 1, Len(v) - 1)), v[Len(v)])

\* iter().sum()
RECURSIVE sum(_)
sum(v) == IF v = <<>> THEN 0 ELSE Head(v) + sum(Tail(v))

\* faulty variant: the rolls are not sorted and the first die is dropped
roll_ability_score_unsorted(rolls) == sum(SubSeq(rolls, 2, Len(rolls)))

\* roll_ability_score, given its four dice: rolls.sort(); rolls[1..].sum()
roll_ability_score(rolls) == sum(SubSeq(sort(rolls), 2, Len(rolls)))

\* Rust's integer division: the quotient is truncated toward zero
div_trunc(a, b) == IF a >= 0 THEN a \div b ELSE -((-a) \div b)

\* faulty variant: the names are compared as written
is_melee_weapon_as_written(weapon) ==
    weapon \in {"sword", "axe", "mace", "dagger", "staff", "hammer"}

is_melee_weapon(weapon) ==
    to_lowercase(weapon) \in {"sword", "axe", "mace", "dagger", "staff", "hammer"}

\* faulty variant: the bonus grows from level 3
base_attack_bonus_from_level(level) == div_trunc(level, 3)

\* "+1 every 3 levels": (attacker.level as i16 - 1) / 3
base_attack_bonus(level) == div_trunc(level - 1, 3)

\* the strength part of the attack bonus
strength_attack_bonus(attacker, weapon) ==
    IF weapon # NoWeapon /\ is_melee_weapon(weapon)
    THEN get_strength_modifier(attacker.strength) ELSE 0

\* faulty variant: the comparison is the wrong way round
is_hit_below(total_attack, armor_class) == total_attack <= armor_class

\* faulty variant: the attack total has to exceed the armor class
is_hit_above(total_attack, armor_class) == total_attack > armor_class

is_hit(total_attack, armor_class) == total_attack >= armor_class

\* faulty variant: the crossbow rolls the bow's die
weapon_dice_light_crossbow(weapon) ==
    CASE weapon = "sword" -> [dice_count |-> 1, dice_sides |-> 8, bonus |-> 0]
      [] weapon \in {"axe", "mace", "staff", "bow", "crossbow"} ->
             [dice_count |-> 1, dice_sides |-> 6, bonus |-> 0]
      [] OTHER -> [dice_count |-> 1, dice_sides |-> 4, bonus |-> 0]

\* the (dice_count, dice_sides, bonus) table of calculate_damage
weapon_dice(weapon) ==
    CASE weapon = "sword" -> [dice_count |-> 1, dice_sides |-> 8, bonus |-> 0]
      [] weapon = "axe" -> [dice_count |-> 1, dice_sides |-> 6, bonus |-> 0]
      [] weapon = "mace" -> [dice_count |-> 1, dice_sides |-> 6, bonus |-> 0]
      [] weapon = "dagger" -> [dice_count |-> 1, dice_sides |-> 4, bonus |-> 0]
      [] weapon = "staff" -> [dice_count |-> 1, dice_sides |-> 6, bonus |-> 0]
      [] weapon = "bow" -> [dice_count |-> 1, dice_sides |-> 6, bonus |-> 0]
      [] weapon = "crossbow" -> [dice_count |-> 1, dice_sides |-> 8, bonus |-> 0]
      [] OTHER -> [dice_count |-> 1, dice_sides |-> 4, bonus |-> 0]

\* the strength part of the damage: str_mod.max(0) for a melee weapon
strength_damage(attacker, weapon) ==
    IF weapon # NoWeapon /\ is_melee_weapon(weapon)
    THEN IF get_strength_modifier(attacker.strength) > 0
         THEN get_strength_modifier(attacker.strength) ELSE 0
    ELSE 0

\* faulty variant: the final damage.max(1) is left out and the strength
\* modifier is added as it is
calculate_damage_unclamped(attacker, weapon, dice) ==
    weapon_dice(weapon).bonus + dice
        + (IF weapon # NoWeapon /\ is_melee_weapon(weapon)
           THEN get_strength_modifier(attacker.strength) ELSE 0)

\* calculate_damage, given the sum of its dice
calculate_damage(attacker, weapon, dice) ==
    LET damage == weapon_dice(weapon).bonus + dice
                      + strength_damage(attacker, weapon)
    IN  IF damage < 1 THEN 1 ELSE damage

\* roll_attack, given its d20 and the sum of the damage dice (0 when no
\* damage is rolled): its locals and its result (hit, damage)
roll_attack(attacker, target, weapon, attack_roll, dice) ==
    LET attack_bonus == base_attack_bonus(attacker.level)
                            + strength_attack_bonus(attacker, weapon)
        total_attack == attack_roll + attack_bonus
        hit == is_hit(total_attack, target.armor_class)
    IN  [weapon |-> weapon, attack_roll |-> attack_roll,
         attack_bonus |-> attack_bonus, total_attack |-> total_attack,
         hit |-> hit,
         dice_count |-> IF hit THEN weapon_dice(weapon).dice_count ELSE 0,
         dice_sides |-> IF hit THEN weapon_dice(weapon).dice_sides ELSE 0,
         bonus |-> IF hit THEN weapon_dice(weapon).bonus ELSE 0,
         dice |-> IF hit THEN dice ELSE 0,
         damage |-> IF hit THEN calculate_damage(attacker, weapon, dice) ELSE 0]

\* the sums the damage dice of a weapon can show, among the explored faces
dice_sums(weapon, faces) ==
    {d \in faces : weapon_dice(weapon).dice_count <= d
                   /\ d <= weapon_dice(weapon).dice_count
                           * weapon_dice(weapon).dice_sides}

\* the outcomes of one roll_attack call
roll_outcomes(attacker, target, weapon, d20, faces) ==
    UNION {IF roll_attack(attacker, target, weapon, a, 0).hit
           THEN {roll_attack(attacker, target, weapon, a, d) :
                     d \in dice_sums(weapon, faces)}
           ELSE {roll_attack(attacker, target, weapon, a, 0)} : a \in d20}

\* the results process_attack_events can get for the events it reads: one
\* roll_attack call for each event whose attacker and target the query holds
RECURSIVE attack_results(_, _, _, _, _)
attack_results(events, chars, sheet, d20, faces) ==
    IF events = <<>> THEN {<<>>}
    ELSE LET event == Head(events)
             rest == attack_results(Tail(events), chars, sheet, d20, faces)
         IN  IF event.attacker \in DOMAIN chars /\ event.target \in DOMAIN chars
             THEN {<<[attacker |-> event.attacker,
                      target |-> event.target] @@ outcome>> \o more :
                       outcome \in roll_outcomes(sheet[event.attacker],
                                                 sheet[event.target],
                                                 event.weapon, d20, faces),
                       more \in rest}
             ELSE rest

\* faulty variant: a miss sends a damage event too
sent_on_any_roll(results) ==
    [i \in 1..Len(results) |->
        [target |-> results[i].target, damage |-> results[i].damage,
         damage_type |-> "Slashing"]]

\* the DamageEvents process_attack_events sends for its results
RECURSIVE sent(_)
sent(results) ==
    IF results = <<>> THEN <<>>
    ELSE (IF Head(results).hit
          THEN <<[target |-> Head(results).target,
                  damage |-> Head(results).damage,
                  damage_type |-> "Slashing"]>>
          ELSE <<>>) \o sent(Tail(results))

\* Character::is_alive
is_alive(character) == character.hit_points.current > 0

I16Min == -32768        \* HitPoints::current and ::maximum are i16
I16Max == 32767

\* the result of i16 arithmetic in a build without overflow checks
wrap_i16(x) == ((x - I16Min) % (I16Max - I16Min + 1)) + I16Min

\* the result does not fit an i16: a panic in a build with overflow checks
overflows_i16(x) == x \notin I16Min..I16Max

\* faulty variant: the hit points go below zero
take_damage_unclamped(character, damage) ==
    [character EXCEPT !.hit_points.current = @ - damage]

\* Character::take_damage
take_damage(character, damage) ==
    LET current == wrap_i16(character.hit_points.current - damage)
    IN  [character EXCEPT !.hit_points.current =
                              IF current < 0 THEN 0 ELSE current]

\* Character::heal
heal(character, amount) ==
    LET current == wrap_i16(character.hit_points.current + amount)
    IN  [character EXCEPT !.hit_points.current =
                              IF current > character.hit_points.maximum
                              THEN character.hit_points.maximum ELSE current]

CharacterClasses ==
    {"Fighter", "MagicUser", "Cleric", "Thief", "Dwarf", "Elf", "Halfling"}

\* the match on the class in calculate_hit_points and HitPoints::new
base_hp(class) ==
    CASE class = "Fighter" -> 10
      [] class = "MagicUser" -> 4
      [] class = "Cleric" -> 8
      [] class = "Thief" -> 6
      [] class = "Dwarf" -> 8
      [] class = "Elf" -> 6
      [] class = "Halfling" -> 6

\* (base_hp as i16 + con_modifier).max(1)
hit_points_for(class, constitution) ==
    LET hp == base_hp(class) + get_constitution_modifier(constitution)
    IN  IF hp < 1 THEN 1 ELSE hp

\* Character::calculate_hit_points
calculate_hit_points(character) ==
    hit_points_for(character.class, character.constitution)

\* HitPoints::new
hit_points_new(class, constitution) ==
    [current |-> hit_points_for(class, constitution),
     maximum |-> hit_points_for(class, constitution)]

\* Character::level_up in a build without overflow checks
level_up(character) ==
    LET new_hp == calculate_hit_points(character)
    IN  [character EXCEPT !.level = (@ + 1) % 256,
                          !.hit_points.maximum = wrap_i16(@ + new_hp),
                          !.hit_points.current = wrap_i16(@ + new_hp)]

\* one of the three additions of level_up does not fit its type
level_up_overflows(character) ==
    \/ character.level + 1 > 255
    \/ overflows_i16(character.hit_points.maximum
                         + calculate_hit_points(character))
    \/ overflows_i16(character.hit_points.current
                         + calculate_hit_points(character))

\* the loop of process_damage_events
RECURSIVE process_damage_events(_, _)
process_damage_events(events, sheet) ==
    IF events = <<>> THEN sheet
    ELSE LET event == Head(events)
         IN  process_damage_events(Tail(events),
                 IF event.target \in DOMAIN sheet
                 THEN [sheet EXCEPT ![event.target] =
                                        take_damage(@, event.damage)]
                 ELSE sheet)

\* ------------------------------------------------------ the status ledger
\* effect.duration -= 1 on a u8 in a build without overflow checks
wrapping_decrement(duration) == (duration + 255) % 256

\* faulty variant: an effect is dropped only once it has gone below zero
retained_at_zero(effect) == effect.duration >= 0

\* the result of retain_mut's closure: effect.duration > 0
retained(effect) == effect.duration > 0

\* Vec::retain_mut with the closure of update_status_effects
RECURSIVE retain_mut(_)
retain_mut(ledger) ==
    IF ledger = <<>> THEN <<>>
    ELSE LET effect == [Head(ledger) EXCEPT
                            !.duration = wrapping_decrement(@)]
         IN  (IF retained(effect) THEN <<effect>> ELSE <<>>)
                 \o retain_mut(Tail(ledger))

\* the decrement underflows on some effect; a build with overflow checks
\* panics there
underflows(ledgers, chars) ==
    \E e \in DOMAIN chars :
        \E i \in 1..Len(ledgers[e]) : ledgers[e][i].duration = 0

\* update_status_effects over every Combatant of the query
update_status_effects(ledgers, chars) ==
    [e \in DOMAIN ledgers |->
        IF e \in DOMAIN chars THEN retain_mut(ledgers[e]) ELSE ledgers[e]]

\* ------------------------------------------------------------ the actions
\* the cast: entity 1 has dexterity 16 (modifier +2), every other entity
\* dexterity 7 (modifier -1); a spawned Combatant has initiative 0
DexterityOf(e) == IF e = 1 THEN 16 ELSE 7

CombatantRecords(e) ==
    [initiative : {0}, is_player : BOOLEAN,
     actions_remaining : 0..MaxActions, dexterity : {DexterityOf(e)}]

\* the entities that carry a Combatant and a Character, with their fields
Worlds ==
    UNION {{w \in [S -> UNION {CombatantRecords(e) : e \in S}] :
                \A e \in S : w[e] \in CombatantRecords(e)} :
           S \in SUBSET Entities}

\* the cast as spawned, both entities in the queries: entity 1 is the
\* player, entity 2 the enemy
Cast ==
    [e \in Entities |->
        [initiative |-> 0, is_player |-> (e = 1),
         actions_remaining |-> MaxActions, dexterity |-> DexterityOf(e)]]

\* Character::calculate_armor_class
calculate_armor_class(dexterity) == 10 + get_dexterity_modifier(dexterity)

\* the Character of the cast: level 1 as Character::new sets it, entity 1
\* strong (strength 16, modifier +2), every other entity weak (strength 7,
\* modifier -1), full hit points
SheetOf(e, hit_points) ==
    [level |-> 1, strength |-> IF e = 1 THEN 16 ELSE 7,
     armor_class |-> calculate_armor_class(DexterityOf(e)),
     hit_points |-> [current |-> hit_points, maximum |-> hit_points]]

\* an ability score of 10, not rolled, whose modifiers are not computed
AbilityIdle ==
    [dice |-> <<>>, score |-> 10, computed |-> FALSE, strength_modifier |-> 0,
     dexterity_modifier |-> 0, constitution_modifier |-> 0]

\* no attack is being resolved, no status effect is stored and no ability
\* score is being worked on
ResolutionIdle ==
    /\ sheets = [e \in Entities |-> SheetOf(e, 10)]
    /\ damage_events = <<>>
    /\ status_effects = [e \in Entities |-> <<>>]
    /\ attack_rolls = <<>>
    /\ ability = AbilityIdle
    /\ advances = <<>>

Init ==
    /\ combat = new
    /\ characters \in Worlds
    /\ attack_events = <<>>
    /\ panicked = FALSE
    /\ tick_rolls = 0
    /\ lastOp = [op |-> "new", call |-> "none"]
    /\ ResolutionIdle

AddCombatant ==
    /\ ~panicked
    /\ Len(combat.combatants) < MaxCombatants
    /\ \E entity \in Entities : combat' = add_combatant(combat, entity)
    /\ lastOp' = [op |-> "add_combatant", call |-> "none"]
    /\ UNCHANGED <<characters, attack_events, panicked, tick_rolls>>
    /\ UNCHANGED resolution

\* the body of roll_initiative as a step, shared by the direct call and
\* the tick in the Initiative phase
RollStep ==
    \E rolls \in [DOMAIN characters -> DieFaces] :
        LET rolled == roll_all(characters, rolls)
        IN  IF sort_panics(combat.combatants, rolled)
            THEN /\ panicked' = TRUE
                 /\ UNCHANGED <<combat, characters>>
            ELSE /\ combat' = roll_initiative(combat, rolled)
                 /\ characters' = rolled
                 /\ UNCHANGED panicked

RollInitiative ==
    /\ ~panicked
    /\ RollStep
    /\ lastOp' = [op |-> "roll_initiative", call |-> "roll_initiative"]
    /\ UNCHANGED <<attack_events, tick_rolls>>
    /\ UNCHANGED resolution

NextTurn ==
    /\ ~panicked
    /\ combat.turn < MaxTurn
    /\ combat' = next_turn(combat)
    /\ lastOp' = [op |-> "next_turn", call |-> "next_turn"]
    /\ UNCHANGED <<characters, attack_events, panicked, tick_rolls>>
    /\ UNCHANGED resolution

\* faulty variant: the arm that ends an enemy's turn is the match's last
\* arm and takes every other phase
TickEndsTurnInAnyPhase ==
    /\ ~panicked
    /\ combat.turn < MaxTurn
    /\ LET current == combat.current_combatant
           known == current # None /\ current \in DOMAIN characters
       IN  IF combat.state = "Initiative"
           THEN /\ RollStep
                /\ tick_rolls' = tick_rolls + 1
                /\ lastOp' = [op |-> "tick", call |-> "roll_initiative"]
                /\ UNCHANGED attack_events
           ELSE IF combat.state = "PlayerTurn" /\ known
                   /\ ~player_can_act(characters[current])
           THEN /\ combat' = next_turn(combat)
                /\ lastOp' = [op |-> "tick", call |-> "next_turn"]
                /\ UNCHANGED <<characters, attack_events, panicked, tick_rolls>>
           ELSE IF combat.state = "EnemyTurn" /\ known
                   /\ enemy_can_act(characters[current])
           THEN /\ attack_events' =
                       attack_events \o perform_ai_action(current, characters)
                /\ characters' =
                       [characters EXCEPT ![current].actions_remaining = @ - 1]
                /\ lastOp' = [op |-> "tick", call |-> "perform_ai_action"]
                /\ UNCHANGED <<combat, panicked, tick_rolls>>
           ELSE IF combat.state # "PlayerTurn" /\ known
           THEN /\ combat' = next_turn(combat)
                /\ lastOp' = [op |-> "tick", call |-> "next_turn"]
                /\ UNCHANGED <<characters, attack_events, panicked, tick_rolls>>
           ELSE /\ lastOp' = [op |-> "tick", call |-> "none"]
                /\ UNCHANGED <<combat, characters, attack_events, panicked,
                               tick_rolls>>
    /\ UNCHANGED resolution

\* handle_combat_turn
Tick ==
    /\ ~panicked
    /\ combat.turn < MaxTurn
    /\ LET current == combat.current_combatant
           known == current # None /\ current \in DOMAIN characters
       IN  IF combat.state = "Initiative"
           THEN /\ RollStep
                /\ tick_rolls' = tick_rolls + 1
                /\ lastOp' = [op |-> "tick", call |-> "roll_initiative"]
                /\ UNCHANGED attack_events
           ELSE IF combat.state = "PlayerTurn" /\ known
                   /\ ~player_can_act(characters[current])
           THEN /\ combat' = next_turn(combat)
                /\ lastOp' = [op |-> "tick", call |-> "next_turn"]
                /\ UNCHANGED <<characters, attack_events, panicked, tick_rolls>>
           ELSE IF combat.state = "EnemyTurn" /\ known
                   /\ enemy_can_act(characters[current])
           THEN /\ attack_events' =
                       attack_events \o perform_ai_action(current, characters)
                /\ characters' =
                       [characters EXCEPT ![current].actions_remaining = @ - 1]
                /\ lastOp' = [op |-> "tick", call |-> "perform_ai_action"]
                /\ UNCHANGED <<combat, panicked, tick_rolls>>
           ELSE IF combat.state = "EnemyTurn" /\ known
           THEN /\ combat' = next_turn(combat)
                /\ lastOp' = [op |-> "tick", call |-> "next_turn"]
                /\ UNCHANGED <<characters, attack_events, panicked, tick_rolls>>
           ELSE /\ lastOp' = [op |-> "tick", call |-> "none"]
                /\ UNCHANGED <<combat, characters, attack_events, panicked,
                               tick_rolls>>
    /\ UNCHANGED resolution

Next == AddCombatant \/ RollInitiative \/ NextTurn \/ Tick

\* a session built with Combat::new and driven through its methods and ticks
Spec == Init /\ [][Next]_vars

\* an encounter driven by the tick system alone, after add_combatant calls
NextTicks == AddCombatant \/ Tick

SpecTicks == Init /\ [][NextTicks]_vars

\* the session is driven by the tick system and by next_turn
NextLoaded == NextTurn \/ Tick

\* Combat's fields are public and the struct is Deserialize: next_turn and
\* the handler may meet any value of its type
InitAny ==
    /\ combat \in [round : {1}, turn : {1}, combatants : Seqs(MaxCombatants),
                    initiative_order : Seqs(MaxCombatants),
                    current_combatant : Entities \cup {None},
                    state : CombatStates]
    /\ characters \in Worlds
    /\ attack_events = <<>>
    /\ panicked = FALSE
    /\ tick_rolls = 0
    /\ lastOp = [op |-> "new", call |-> "none"]
    /\ ResolutionIdle

SpecAny == InitAny /\ [][NextLoaded]_vars

\* the records roll_initiative leaves behind
RolledWorlds ==
    UNION {{roll_all(w, rolls) : rolls \in [DOMAIN w -> DieFaces]} : w \in Worlds}

\* a session met in the middle of an encounter, in any phase: initiative has
\* been rolled, the order is the sorted combatant list, and a member of the
\* order is current
InitLoaded ==
    /\ characters \in RolledWorlds
    /\ \E list \in Seqs(MaxCombatants), phase \in CombatStates \ {"Initiative"} :
          /\ ~sort_panics(list, characters)
          /\ LET order == sort_by(list, characters)
             IN  \E current \in Range(order) \cup {None} :
                   /\ current = None => order = <<>>
                   /\ combat = [round |-> 1, turn |-> 1, combatants |-> list,
                                initiative_order |-> order,
                                current_combatant |-> current, state |-> phase]
    /\ attack_events = <<>>
    /\ panicked = FALSE
    /\ tick_rolls = 0
    /\ lastOp = [op |-> "new", call |-> "none"]
    /\ ResolutionIdle

SpecLoaded == InitLoaded /\ [][NextLoaded]_vars

\* a session met in any phase, Initiative included, with initiative rolled
\* before (every d6 showed 3)
InitOperations ==
    /\ characters \in {roll_all(w, [e \in DOMAIN w |-> 3]) : w \in Worlds}
    /\ \E list \in Seqs(MaxCombatants), phase \in CombatStates :
          /\ ~sort_panics(list, characters)
          /\ LET order == sort_by(list, characters)
             IN  \E current \in Range(order) \cup {None} :
                   /\ current = None => order = <<>>
                   /\ combat = [round |-> 1, turn |-> 1, combatants |-> list,
                                initiative_order |-> order,
                                current_combatant |-> current, state |-> phase]
    /\ attack_events = <<>>
    /\ panicked = FALSE
    /\ tick_rolls = 0
    /\ lastOp = [op |-> "new", call |-> "none"]
    /\ ResolutionIdle

\* the operations of a running encounter
NextOperations == RollInitiative \/ NextTurn \/ Tick

SpecOperations == InitOperations /\ [][NextOperations]_vars

\* --------------------------------------------- the resolution of attacks
MaxPending == 1         \* most events that wait to be read at one time
MaxLevel == 255         \* Character::level is a u8

\* the weapons, d20 faces and damage-die faces an encounter is explored with
EncounterWeapons == {NoWeapon, "sword"}
EncounterD20 == {2, 15}
EncounterDice == {1, 4, 8}

DamageDice == 1..8      \* every face of the largest damage die

\* an AttackEvent arrives: a player's chosen attack, or any other system's
SendAttack ==
    /\ ~panicked
    /\ Len(attack_events) + Len(damage_events) < MaxPending
    /\ \E attacker \in Entities, target \in Entities,
          weapon \in EncounterWeapons :
          attack_events' =
              Append(attack_events,
                     [attacker |-> attacker, target |-> target,
                      weapon |-> weapon])
    /\ attack_rolls' = <<>>
    /\ UNCHANGED <<ability, advances>>
    /\ lastOp' = [op |-> "send_attack", call |-> "none"]
    /\ UNCHANGED <<combat, characters, panicked, tick_rolls, sheets,
                   damage_events, status_effects>>

\* process_attack_events: every waiting AttackEvent is read and resolved
ProcessAttackEvents(d20, faces) ==
    /\ ~panicked
    /\ \E results \in
            attack_results(attack_events, characters, sheets, d20, faces) :
          /\ attack_rolls' = results
          /\ damage_events' = damage_events \o sent(results)
    /\ attack_events' = <<>>
    /\ UNCHANGED <<ability, advances>>
    /\ lastOp' = [op |-> "process_attack_events", call |-> "roll_attack"]
    /\ UNCHANGED <<combat, characters, panicked, tick_rolls, sheets,
                   status_effects>>

\* process_damage_events: every waiting DamageEvent is read and applied
ProcessDamageEvents ==
    /\ ~panicked
    /\ sheets' = process_damage_events(damage_events, sheets)
    /\ damage_events' = <<>>
    /\ attack_rolls' = <<>>
    /\ UNCHANGED <<ability, advances>>
    /\ lastOp' = [op |-> "process_damage_events",
                  call |-> IF damage_events = <<>> THEN "none"
                           ELSE "take_damage"]
    /\ UNCHANGED <<combat, characters, attack_events, panicked, tick_rolls,
                   status_effects>>

\* roll_attack on drawn inputs: entity 1 attacks entity 2
Levels == {1, 4}
Strengths == {3, 7, 10, 14, 16, 18, 19}
ArmorClasses == {-2, 10, 12, 21, 30}

InitRolls(levels, strengths, armor_classes, weapons) ==
    /\ combat = new
    /\ characters = Cast
    /\ \E level \in levels, strength \in strengths,
          armor_class \in armor_classes :
          sheets = [e \in Entities |->
                       IF e = 1
                       THEN [SheetOf(e, 10) EXCEPT !.level = level,
                                                   !.strength = strength]
                       ELSE [SheetOf(e, 10) EXCEPT
                                 !.armor_class = armor_class]]
    /\ \E weapon \in weapons :
          attack_events = <<[attacker |-> 1, target |-> 2, weapon |-> weapon]>>
    /\ damage_events = <<>>
    /\ status_effects = [e \in Entities |-> <<>>]
    /\ attack_rolls = <<>>
    /\ ability = AbilityIdle
    /\ advances = <<>>
    /\ panicked = FALSE
    /\ tick_rolls = 0
    /\ lastOp = [op |-> "new", call |-> "none"]

InitAttack == InitRolls(Levels, Strengths, ArmorClasses, Weapons)

NextAttack == ProcessAttackEvents(D20, DamageDice)

SpecAttack == InitAttack /\ [][NextAttack]_vars

\* roll_attack at every level
InitLevels == InitRolls(0..MaxLevel, {7, 16}, {10}, {NoWeapon, "sword"})

NextLevels == ProcessAttackEvents(D20, {1})

SpecLevels == InitLevels /\ [][NextLevels]_vars

\* an encounter of the cast after the initiative roll (every d6 showed 3):
\* attacks are sent, resolved and applied
HitPointsStart == {1, 10}

InitEncounter ==
    /\ characters = roll_all(Cast, [e \in Entities |-> 3])
    /\ combat = roll_initiative(add_combatant(add_combatant(new, 1), 2),
                                characters)
    /\ sheets \in {[e \in Entities |-> SheetOf(e, start[e])] :
                      start \in [Entities -> HitPointsStart]}
    /\ attack_events = <<>>
    /\ damage_events = <<>>
    /\ status_effects = [e \in Entities |-> <<>>]
    /\ attack_rolls = <<>>
    /\ ability = AbilityIdle
    /\ advances = <<>>
    /\ panicked = FALSE
    /\ tick_rolls = 0
    /\ lastOp = [op |-> "new", call |-> "none"]

NextEncounter ==
    \/ SendAttack
    \/ ProcessAttackEvents(EncounterD20, EncounterDice)
    \/ ProcessDamageEvents

SpecEncounter == InitEncounter /\ [][NextEncounter]_vars

\* ------------------------------------------------------ the status ledger
MaxEffects == 2         \* most effects a combatant starts with
MaxDuration == 3        \* longest duration an effect starts with

EffectNames == {"poison", "bless"}
Durations == {0, 1, MaxDuration}

Effects == [name : EffectNames, duration : Durations]

Ledgers == UNION {[1..k -> Effects] : k \in 0..MaxEffects}

\* update_status_effects; passes are explored until a duration has wrapped.
\* A stored duration of 0 underflows: the pass panics in a build with
\* overflow checks and wraps to 255 in one without
UpdateStatusEffects ==
    /\ ~panicked
    /\ \A e \in DOMAIN status_effects :
          \A i \in 1..Len(status_effects[e]) :
             status_effects[e][i].duration <= MaxDuration
    /\ \/ /\ underflows(status_effects, characters)
          /\ panicked' = TRUE
          /\ UNCHANGED status_effects
       \/ /\ status_effects' = update_status_effects(status_effects, characters)
          /\ UNCHANGED panicked
    /\ lastOp' = [op |-> "update_status_effects", call |-> "retain_mut"]
    /\ UNCHANGED <<combat, characters, attack_events, tick_rolls, sheets,
                   damage_events, attack_rolls, ability, advances>>

InitStatus ==
    /\ combat = new
    /\ characters = Cast
    /\ status_effects \in [Entities -> Ledgers]
    /\ sheets = [e \in Entities |-> SheetOf(e, 10)]
    /\ attack_events = <<>>
    /\ damage_events = <<>>
    /\ attack_rolls = <<>>
    /\ ability = AbilityIdle
    /\ advances = <<>>
    /\ panicked = FALSE
    /\ tick_rolls = 0
    /\ lastOp = [op |-> "new", call |-> "none"]

NextStatus == UpdateStatusEffects

SpecStatus == InitStatus /\ [][NextStatus]_vars

\* the frames of an encounter of the cast: the Update schedule runs the
\* turn handler and the status pass; each combatant starts with effects
\* that have just been inflicted with duration MaxDuration
FreshLedgers ==
    {ledger \in Ledgers :
        /\ ledger # <<>>
        /\ \A i \in 1..Len(ledger) : ledger[i].duration = MaxDuration}

InitFrames ==
    /\ combat = add_combatant(add_combatant(new, 1), 2)
    /\ characters = Cast
    /\ status_effects \in [Entities -> FreshLedgers]
    /\ sheets = [e \in Entities |-> SheetOf(e, 10)]
    /\ attack_events = <<>>
    /\ damage_events = <<>>
    /\ attack_rolls = <<>>
    /\ ability = AbilityIdle
    /\ advances = <<>>
    /\ panicked = FALSE
    /\ tick_rolls = 0
    /\ lastOp = [op |-> "new", call |-> "none"]

NextFrames == Tick \/ UpdateStatusEffects

SpecFrames == InitFrames /\ [][NextFrames]_vars

\* ------------------------------------------------------- ability scores
MaxScore == 255         \* an ability score is a u8

D6 == 1..6              \* rng.gen_range(1..=6)

\* roll_initiative with every face of the die
RollInitiativeAnyFace ==
    /\ ~panicked
    /\ \E rolls \in [DOMAIN characters -> D6] :
          LET rolled_all == roll_all(characters, rolls)
          IN  IF sort_panics(combat.combatants, rolled_all)
              THEN /\ panicked' = TRUE
                   /\ UNCHANGED <<combat, characters>>
              ELSE /\ combat' = roll_initiative(combat, rolled_all)
                   /\ characters' = rolled_all
                   /\ UNCHANGED panicked
    /\ lastOp' = [op |-> "roll_initiative", call |-> "roll_initiative"]
    /\ UNCHANGED <<attack_events, tick_rolls>>
    /\ UNCHANGED resolution

\* a new session of the cast, entity 1 with any dexterity score
InitInitiative ==
    /\ combat = add_combatant(add_combatant(new, 1), 2)
    /\ \E dexterity \in 0..MaxScore :
          characters = [Cast EXCEPT ![1].dexterity = dexterity]
    /\ sheets = [e \in Entities |-> SheetOf(e, 10)]
    /\ status_effects = [e \in Entities |-> <<>>]
    /\ attack_events = <<>>
    /\ damage_events = <<>>
    /\ attack_rolls = <<>>
    /\ ability = AbilityIdle
    /\ advances = <<>>
    /\ panicked = FALSE
    /\ tick_rolls = 0
    /\ lastOp = [op |-> "new", call |-> "none"]

NextInitiative == RollInitiativeAnyFace

SpecInitiative == InitInitiative /\ [][NextInitiative]_vars

\* the three modifier functions are applied to the score
GetModifiers ==
    /\ ~panicked
    /\ ability' = [ability EXCEPT
                       !.computed = TRUE,
                       !.strength_modifier = get_strength_modifier(ability.score),
                       !.dexterity_modifier = get_dexterity_modifier(ability.score),
                       !.constitution_modifier =
                           get_constitution_modifier(ability.score)]
    /\ lastOp' = [op |-> "get_modifiers", call |-> "none"]
    /\ UNCHANGED <<combat, characters, attack_events, panicked, tick_rolls,
                   sheets, damage_events, status_effects, attack_rolls,
                   advances>>

\* roll_ability_score: a score that has not been rolled is rolled with 4d6
RollAbilityScore ==
    /\ ~panicked
    /\ ability.dice = <<>>
    /\ \E rolls \in [1..4 -> D6] :
          ability' = [AbilityIdle EXCEPT !.dice = rolls,
                                         !.score = roll_ability_score(rolls)]
    /\ lastOp' = [op |-> "roll_ability_score", call |-> "none"]
    /\ UNCHANGED <<combat, characters, attack_events, panicked, tick_rolls,
                   sheets, damage_events, status_effects, attack_rolls,
                   advances>>

\* CharacterStats::roll for one score, and the modifiers of the result
InitAbility ==
    /\ combat = new
    /\ characters = Cast
    /\ ability = AbilityIdle
    /\ advances = <<>>
    /\ sheets = [e \in Entities |-> SheetOf(e, 10)]
    /\ status_effects = [e \in Entities |-> <<>>]
    /\ attack_events = <<>>
    /\ damage_events = <<>>
    /\ attack_rolls = <<>>
    /\ panicked = FALSE
    /\ tick_rolls = 0
    /\ lastOp = [op |-> "new", call |-> "none"]

NextAbility == RollAbilityScore \/ GetModifiers

SpecAbility == InitAbility /\ [][NextAbility]_vars

\* the modifiers of every score a CharacterStats field can hold
InitModifiers ==
    /\ combat = new
    /\ characters = Cast
    /\ \E score \in 0..MaxScore : ability = [AbilityIdle EXCEPT !.score = score]
    /\ advances = <<>>
    /\ sheets = [e \in Entities |-> SheetOf(e, 10)]
    /\ status_effects = [e \in Entities |-> <<>>]
    /\ attack_events = <<>>
    /\ damage_events = <<>>
    /\ attack_rolls = <<>>
    /\ panicked = FALSE
    /\ tick_rolls = 0
    /\ lastOp = [op |-> "new", call |-> "none"]

NextModifiers == GetModifiers

SpecModifiers == InitModifiers /\ [][NextModifiers]_vars

\* ------------------------------------------------------------ hit points
MaxHitPoints == 30      \* the calls are explored while the hit points are
                        \* within -MaxHitPoints..MaxHitPoints
MaxLevelUps == 2        \* most level_up calls on one character

Constitutions == {3, 10, 18}
Amounts == {I16Min, -4, 0, 4, I16Max}

\* the fields of a Character that its hit points depend on
CharacterOf(class, constitution) ==
    [class |-> class, constitution |-> constitution, level |-> 1,
     hit_points |-> hit_points_new(class, constitution)]

\* an i16 operation on the hit points of e: it panics when the result
\* does not fit, or wraps, as the build has it
Arithmetic(e, overflows, result, op) ==
    /\ ~panicked
    /\ sheets[e].hit_points.current \in -MaxHitPoints..MaxHitPoints
    /\ \/ /\ overflows
          /\ panicked' = TRUE
          /\ UNCHANGED sheets
       \/ /\ sheets' = [sheets EXCEPT ![e] = result]
          /\ UNCHANGED panicked
    /\ lastOp' = [op |-> op, call |-> op]
    /\ UNCHANGED <<combat, characters, attack_events, tick_rolls,
                   damage_events, status_effects, attack_rolls, ability,
                   advances>>

TakeDamage ==
    \E e \in DOMAIN sheets, damage \in Amounts :
        Arithmetic(e,
                   overflows_i16(sheets[e].hit_points.current - damage),
                   take_damage(sheets[e], damage), "take_damage")

Heal ==
    \E e \in DOMAIN sheets, amount \in Amounts :
        Arithmetic(e,
                   overflows_i16(sheets[e].hit_points.current + amount),
                   heal(sheets[e], amount), "heal")

LevelUp ==
    \E e \in DOMAIN sheets :
        /\ sheets[e].level <= MaxLevelUps
        /\ Arithmetic(e, level_up_overflows(sheets[e]), level_up(sheets[e]),
                      "level_up")

\* one character of any class, as Character::new leaves its hit points
InitHitPoints ==
    /\ combat = new
    /\ characters = Cast
    /\ sheets \in {[e \in {1} |-> CharacterOf(class, constitution)] :
                      class \in CharacterClasses,
                      constitution \in Constitutions}
    /\ attack_events = <<>>
    /\ damage_events = <<>>
    /\ status_effects = [e \in Entities |-> <<>>]
    /\ attack_rolls = <<>>
    /\ ability = AbilityIdle
    /\ advances = <<>>
    /\ panicked = FALSE
    /\ tick_rolls = 0
    /\ lastOp = [op |-> "new", call |-> "none"]

NextHitPoints == TakeDamage \/ Heal \/ LevelUp

SpecHitPoints == InitHitPoints /\ [][NextHitPoints]_vars

\* ------------------------------------------------------- rounds of turns
MaxAdvances == 4        \* most next_turn calls that follow one roll

\* the position next_turn makes current (its next_index), NoIndex when
\* the call falls through its `if let`s
position_made_current(c) ==
    IF found_index(c) = NoIndex THEN NoIndex
    ELSE next_index_of(found_index(c), Len(c.initiative_order))

\* roll_initiative, called once on the list built so far: the rounds
\* that follow start from its result
RollInitiativeLogged ==
    /\ ~panicked
    /\ advances = <<>>
    /\ RollStep
    /\ advances' = IF panicked' THEN advances
                   ELSE <<[position |-> found_index(combat'),
                           round |-> combat'.round]>>
    /\ lastOp' = [op |-> "roll_initiative", call |-> "roll_initiative"]
    /\ UNCHANGED <<attack_events, tick_rolls, sheets, damage_events,
                   status_effects, attack_rolls, ability>>

\* next_turn, called after the order was rolled
NextTurnLogged ==
    /\ ~panicked
    /\ advances # <<>>
    /\ Len(advances) <= MaxAdvances
    /\ combat' = next_turn(combat)
    /\ advances' = Append(advances,
                          [position |-> position_made_current(combat),
                           round |-> combat'.round])
    /\ lastOp' = [op |-> "next_turn", call |-> "next_turn"]
    /\ UNCHANGED <<characters, attack_events, panicked, tick_rolls, sheets,
                   damage_events, status_effects, attack_rolls, ability>>

NextRounds == AddCombatant \/ RollInitiativeLogged \/ NextTurnLogged

SpecRounds == Init /\ [][NextRounds]_vars

\* ======================================================== the properties
Count(v, e) == Cardinality({i \in 1..Len(v) : v[i] = e})

\* a and b hold the same ids the same number of times
IsPermutation(a, b) ==
    Len(a) = Len(b) /\ \A e \in Entities : Count(a, e) = Count(b, e)

\* the 0-based index of the first occurrence of e in v (e occurs in v)
FirstIndex(v, e) ==
    (CHOOSE i \in 1..Len(v) : v[i] = e /\ \A j \in 1..(i - 1) : v[j] # e) - 1

CurrentInOrder(c) ==
    c.current_combatant # None
        => c.current_combatant \in Range(c.initiative_order)

\* C1, as stated: in every reachable state the initiative order is a
\* permutation of the combatant set and the current combatant, if set, is a
\* member of the initiative order.  add_combatant on a fresh session (or
\* after a roll) refutes the first half.
C1_OrderPermutesCombatants ==
    /\ IsPermutation(combat.initiative_order, combat.combatants)
    /\ CurrentInOrder(combat)

\* C1, amended: the initiative order is a permutation of the combatant list
\* as it stood when roll_initiative last ran, that is of the first
\* Len(initiative_order) entries of the list (none before the first roll,
\* all of them right after a roll); and the current combatant, if set, is a
\* member of the initiative order.
C1_OrderPermutesRolledPrefix ==
    /\ Len(combat.initiative_order) <= Len(combat.combatants)
    /\ IsPermutation(combat.initiative_order,
                     SubSeq(combat.combatants, 1, Len(combat.initiative_order)))
    /\ (lastOp.call = "roll_initiative" /\ ~panicked
            => Len(combat.initiative_order) = Len(combat.combatants))
    /\ CurrentInOrder(combat)

\* C1 witness: a roll has just reordered two combatants
C1_Witness ==
    /\ lastOp.call = "roll_initiative"
    /\ ~panicked
    /\ Len(combat.initiative_order) = 2
    /\ combat.initiative_order # combat.combatants
    /\ combat.current_combatant = combat.initiative_order[1]

\* C2: when the current combatant is found in the order at index i (order
\* length n), next_turn makes order[(i+1) mod n] current, adds exactly 1 to
\* the turn counter, and adds exactly 1 to the round counter iff
\* (i+1) mod n = 0, leaving the round unchanged otherwise.
C2_NextTurnAdvances ==
    [][(/\ lastOp'.call = "next_turn"
        /\ combat.current_combatant # None
        /\ combat.current_combatant \in Range(combat.initiative_order))
       => LET order == combat.initiative_order
              n == Len(order)
              i == FirstIndex(order, combat.current_combatant)
          IN  /\ combat'.current_combatant = order[((i + 1) % n) + 1]
              /\ combat'.turn = combat.turn + 1
              /\ combat'.round =
                     IF (i + 1) % n = 0 THEN combat.round + 1 ELSE combat.round
              /\ combat'.initiative_order = order]_vars

\* C2 witness: two next_turn calls on an order of two, the second wrapping
C2_Witness ==
    /\ lastOp.call = "next_turn"
    /\ Len(combat.initiative_order) = 2
    /\ combat.initiative_order[1] # combat.initiative_order[2]
    /\ combat.turn = 3
    /\ combat.round = 2
    /\ combat.current_combatant = combat.initiative_order[1]

\* C3: next_turn with the current combatant unset, or absent from the
\* initiative order (an empty order included), changes nothing of the
\* session and does not panic.
C3_NextTurnNoOp ==
    [][(/\ lastOp'.call = "next_turn"
        /\ \/ combat.current_combatant = None
           \/ combat.current_combatant \notin Range(combat.initiative_order))
       => /\ combat' = combat
          /\ panicked' = FALSE
          /\ UNCHANGED <<characters, attack_events>>]_vars

\* C3 witness: next_turn has run with a current combatant that the
\* non-empty order does not hold
C3_Witness ==
    /\ lastOp.call = "next_turn"
    /\ combat.current_combatant # None
    /\ combat.initiative_order # <<>>
    /\ combat.current_combatant \notin Range(combat.initiative_order)

\* C4: roll_initiative leaves the initiative order sorted by initiative,
\* highest first, with combatants of equal initiative in the order
\* add_combatant gave them, and makes the first entry current; dexterity
\* modifiers +2 and -1 with rolls 3 and 3 give 5 and 2, the +2 one first.
C4_RollSortsStably ==
    [][(lastOp'.call = "roll_initiative" /\ ~panicked')
       => LET list == combat.combatants
              order == combat'.initiative_order
              chars == characters'
              Ties(v, k) ==
                  LET tie(e) == chars[e].initiative = k IN SelectSeq(v, tie)
          IN  /\ IsPermutation(order, list)
              /\ combat'.current_combatant =
                     (IF order = <<>> THEN None ELSE order[1])
              /\ Range(list) \subseteq DOMAIN chars
                    => /\ \A i, j \in 1..Len(order) :
                             i < j => chars[order[i]].initiative
                                         >= chars[order[j]].initiative
                       /\ \A e \in Range(list) :
                             Ties(order, chars[e].initiative)
                                 = Ties(list, chars[e].initiative)
              /\ \A e \in DOMAIN chars :
                     \E die \in 1..6 :
                         chars[e].initiative =
                             die + get_dexterity_modifier(chars[e].dexterity)]_vars

\* C4 witness: the scenario of the claim, the -1 combatant added first
C4_Witness ==
    /\ lastOp.call = "roll_initiative"
    /\ ~panicked
    /\ combat.combatants = <<2, 1>>
    /\ DOMAIN characters = {1, 2}
    /\ get_dexterity_modifier(characters[1].dexterity) = 2
    /\ get_dexterity_modifier(characters[2].dexterity) = -1
    /\ characters[1].initiative = 5
    /\ characters[2].initiative = 2
    /\ combat.initiative_order = <<1, 2>>
    /\ combat.current_combatant = 1

\* C5: roll_initiative over an empty combatant list leaves the order empty
\* and the current combatant unset, and no later tick or next_turn on that
\* session panics or sets a current combatant.
C5_EmptyRollStaysUnset ==
    [][/\ (lastOp'.call = "roll_initiative" /\ combat.combatants = <<>>)
          => /\ combat'.initiative_order = <<>>
             /\ combat'.current_combatant = None
             /\ panicked' = FALSE
       /\ (/\ combat.state # "Initiative"
           /\ combat.initiative_order = <<>>
           /\ combat.current_combatant = None
           /\ lastOp'.op \in {"tick", "next_turn"})
          => /\ combat'.initiative_order = <<>>
             /\ combat'.current_combatant = None
             /\ panicked' = FALSE]_vars

\* C5 witness: a later tick has run after the tick that rolled over the
\* empty list
C5_Witness ==
    /\ lastOp = [op |-> "tick", call |-> "none"]
    /\ tick_rolls = 1
    /\ combat.state = "PlayerTurn"
    /\ combat.combatants = <<>>
    /\ combat.initiative_order = <<>>
    /\ combat.current_combatant = None
    /\ ~panicked

\* C6: with an initiative order of exactly one combatant every next_turn
\* leaves that combatant current and adds 1 to the round counter and 1 to
\* the turn counter.
C6_SingleCombatantWraps ==
    [][(lastOp'.call = "next_turn" /\ Len(combat.initiative_order) = 1)
       => /\ combat'.current_combatant = combat.initiative_order[1]
          /\ combat'.current_combatant = combat.current_combatant
          /\ combat'.round = combat.round + 1
          /\ combat'.turn = combat.turn + 1]_vars

\* C6 witness: two next_turn calls on an order of one
C6_Witness ==
    /\ lastOp.call = "next_turn"
    /\ Len(combat.initiative_order) = 1
    /\ combat.current_combatant = combat.initiative_order[1]
    /\ combat.round = 3
    /\ combat.turn = 3

\* C7: over the ticks of one encounter roll_initiative runs exactly once,
\* on the tick that finds the phase Initiative; the phase is PlayerTurn
\* right after it completes; and the initiative order never changes
\* afterwards.
C7_RollsOnceAtInitiative ==
    [][/\ lastOp'.op = "tick"
          => /\ tick_rolls' = 1
             /\ (lastOp'.call = "roll_initiative") <=> (combat.state = "Initiative")
             /\ (lastOp'.call = "roll_initiative" /\ ~panicked')
                   => combat'.state = "PlayerTurn"
       /\ combat.state # "Initiative"
          => /\ combat'.initiative_order = combat.initiative_order
             /\ combat'.state # "Initiative"]_vars

\* C7 witness: a later tick has advanced the turn of a rolled order of two
C7_Witness ==
    /\ lastOp.op = "tick"
    /\ lastOp.call = "next_turn"
    /\ tick_rolls = 1
    /\ Len(combat.initiative_order) = 2
    /\ combat.turn = 3

\* C8: in phase PlayerTurn with a player current whose actions_remaining
\* is above 0, a tick leaves the phase, the current combatant, the round
\* and turn counters and that combatant's actions_remaining unchanged.
C8_PlayerTurnWaits ==
    [][(/\ lastOp'.op = "tick"
        /\ combat.state = "PlayerTurn"
        /\ combat.current_combatant \in DOMAIN characters
        /\ characters[combat.current_combatant].is_player
        /\ characters[combat.current_combatant].actions_remaining > 0)
       => /\ combat'.state = combat.state
          /\ combat'.current_combatant = combat.current_combatant
          /\ combat'.round = combat.round
          /\ combat'.turn = combat.turn
          /\ characters'[combat.current_combatant].actions_remaining
                = characters[combat.current_combatant].actions_remaining
          /\ attack_events' = attack_events]_vars

\* C8 witness: a tick has found the player with an action left and waited
C8_Witness ==
    /\ lastOp = [op |-> "tick", call |-> "none"]
    /\ combat.state = "PlayerTurn"
    /\ combat.current_combatant \in DOMAIN characters
    /\ characters[combat.current_combatant].is_player
    /\ characters[combat.current_combatant].actions_remaining > 0
    /\ Len(combat.initiative_order) = 2

\* C9: once a tick has advanced the turn and re-evaluated, the phase is
\* EnemyTurn if the new current combatant is a non-player and PlayerTurn if
\* it is a player: PlayerTurn implies a player is current, EnemyTurn a
\* non-player.
C9_PhaseMatchesCurrentCombatant ==
    (/\ lastOp = [op |-> "tick", call |-> "next_turn"]
     /\ combat.current_combatant \in DOMAIN characters)
    => /\ combat.state = "PlayerTurn"
             => characters[combat.current_combatant].is_player
       /\ combat.state = "EnemyTurn"
             => ~characters[combat.current_combatant].is_player

\* C10: every attack event the enemy policy sends has a non-player as
\* attacker and a player, never the attacker itself or another non-player,
\* as target, with the fixed default weapon.
C10_EnemyTargetsAPlayer ==
    \A i \in 1..Len(attack_events) :
        LET event == attack_events[i]
        IN  /\ event.attacker \in DOMAIN characters
            /\ ~characters[event.attacker].is_player
            /\ event.target \in DOMAIN characters
            /\ characters[event.target].is_player
            /\ event.target # event.attacker
            /\ event.weapon = "sword"

\* ------------------------------------------------- attack resolution
\* the combatants of the session on one side of the fight
Side(is_player) ==
    {e \in Range(combat.combatants) :
        e \in DOMAIN characters /\ characters[e].is_player = is_player}

Fallen(side) == side # {} /\ \A e \in side : sheets[e].hit_points.current = 0

\* C11: once process_damage_events has applied damage, the phase is Victory
\* if every non-player combatant is at 0 hit points and Defeat if every
\* player combatant is.
C11_PhaseEndsOnLastFall ==
    lastOp = [op |-> "process_damage_events", call |-> "take_damage"] =>
        /\ Fallen(Side(FALSE)) => combat.state = "Victory"
        /\ Fallen(Side(TRUE)) /\ ~Fallen(Side(FALSE)) => combat.state = "Defeat"

\* C12: in the Victory and Defeat phases a tick changes nothing of the
\* session (phase, current combatant, round, turn) and sends no attack.
C12_EndedPhasesAreTerminal ==
    [][combat.state \in {"Victory", "Defeat"} /\ lastOp'.op = "tick" =>
          /\ combat' = combat
          /\ attack_events' = attack_events
          /\ characters' = characters]_vars

\* a tick has run in an ended phase although the current combatant is known
\* and has an action left
C12_Witness ==
    /\ lastOp = [op |-> "tick", call |-> "none"]
    /\ combat.state \in {"Victory", "Defeat"}
    /\ combat.current_combatant \in DOMAIN characters
    /\ characters[combat.current_combatant].actions_remaining > 0

\* the roll_attack calls of the last process_attack_events pass
Rolls == {attack_rolls[i] : i \in 1..Len(attack_rolls)}

\* C13: roll_attack hits exactly when its d20 plus the attack bonus is at
\* least the target's armor class (equality hits); a miss deals damage 0.
C13_HitIffTotalReachesArmorClass ==
    \A r \in Rolls :
        /\ r.attack_roll \in 1..20
        /\ r.total_attack = r.attack_roll + r.attack_bonus
        /\ r.hit <=> r.total_attack >= sheets[r.target].armor_class
        /\ ~r.hit => r.damage = 0

\* an attack total equal to the armor class has hit
C13_Witness ==
    \E r \in Rolls :
        /\ r.total_attack = sheets[r.target].armor_class
        /\ r.hit
        /\ r.damage > 0

\* C14: for every attacker, target and weapon, the damage roll_attack
\* returns is at least 1 on a hit and exactly 0 on a miss.
C14_DamageAtLeastOneOnHit ==
    \A r \in Rolls : IF r.hit THEN r.damage >= 1 ELSE r.damage = 0

\* a hit with a melee weapon by an attacker whose strength modifier is
\* negative, the die showing 1
C14_Witness ==
    \E r \in Rolls :
        /\ r.hit
        /\ r.weapon # NoWeapon
        /\ is_melee_weapon(r.weapon)
        /\ get_strength_modifier(sheets[r.attacker].strength) < 0
        /\ r.dice = 1
        /\ r.damage = 1

\* the level-based part of a roll's attack bonus
LevelBonus(r) ==
    r.attack_bonus - strength_attack_bonus(sheets[r.attacker], r.weapon)

\* C15: at every level 0..255 the level-based attack bonus is the
\* mathematical floor of (level - 1) / 3.
C15_LevelBonusIsFloor ==
    \A r \in Rolls : LevelBonus(r) = (sheets[r.attacker].level - 1) \div 3

\* C15, amended: at every level 1..255 the level-based attack bonus is the
\* floor of (level - 1) / 3, and at level 0 it is 0.
C15_LevelBonusIsTruncatedQuotient ==
    \A r \in Rolls :
        LevelBonus(r) = IF sheets[r.attacker].level >= 1
                        THEN (sheets[r.attacker].level - 1) \div 3
                        ELSE 0

\* an attacker of level 0 has rolled an attack without a weapon
C15_Witness ==
    \E r \in Rolls :
        /\ sheets[r.attacker].level = 0
        /\ r.weapon = NoWeapon
        /\ r.attack_bonus = 0

\* the sides of the die the damage table gives a weapon
TableSides(weapon) ==
    CASE weapon \in {"sword", "crossbow"} -> 8
      [] weapon \in {"axe", "mace", "staff", "bow"} -> 6
      [] OTHER -> 4

\* C16: the damage of a hit is rolled on one die with bonus 0: d8 for
\* sword and crossbow, d6 for axe, mace, staff and bow, d4 for dagger, for
\* no weapon and for any other name; the die shows 1..sides.
C16_DiceFollowTheTable ==
    \A r \in Rolls :
        r.hit => /\ r.dice_count = 1
                 /\ r.dice_sides = TableSides(r.weapon)
                 /\ r.bonus = 0
                 /\ r.dice \in 1..r.dice_sides

\* a crossbow has hit and its die shows 8
C16_Witness ==
    \E r \in Rolls : r.hit /\ r.weapon = "crossbow" /\ r.dice = 8

\* the explored names that are a melee weapon's name in some case
MeleeInAnyCase ==
    {"sword", "axe", "mace", "dagger", "staff", "hammer", "Sword", "DAGGER"}

AtLeast(n, floor) == IF n < floor THEN floor ELSE n

\* C17: with a melee weapon (named in any case) the strength modifier is
\* added to the attack bonus as it is and to the damage when positive; with
\* any other weapon or none, neither depends on strength; the damage is
\* never below the die.
C17_StrengthCountsForMeleeOnly ==
    \A r \in Rolls :
        LET attacker == sheets[r.attacker]
            str_mod == get_strength_modifier(attacker.strength)
            level_bonus == div_trunc(attacker.level - 1, 3)
        IN  /\ r.weapon \in MeleeInAnyCase =>
                  /\ r.attack_bonus = level_bonus + str_mod
                  /\ r.hit => r.damage = AtLeast(r.dice + AtLeast(str_mod, 0), 1)
            /\ r.weapon \notin MeleeInAnyCase =>
                  /\ r.attack_bonus = level_bonus
                  /\ r.hit => r.damage = AtLeast(r.dice, 1)
            /\ r.hit => r.damage >= r.dice

\* an attacker with strength modifier +3 has hit with a "Sword"
C17_Witness ==
    \E r \in Rolls :
        /\ r.hit
        /\ r.weapon = "Sword"
        /\ get_strength_modifier(sheets[r.attacker].strength) = 3
        /\ r.attack_bonus = div_trunc(sheets[r.attacker].level - 1, 3) + 3
        /\ r.damage = r.dice + 3

\* the damage the waiting events address to e
RECURSIVE DamageTo(_, _)
DamageTo(events, e) ==
    IF events = <<>> THEN 0
    ELSE (IF Head(events).target = e THEN Head(events).damage ELSE 0)
             + DamageTo(Tail(events), e)

\* C18: process_damage_events lowers the hit points of each target by the
\* damage addressed to it, stopping at 0; hit points are never negative and
\* a character is not alive exactly when its hit points are 0.
C18_DamageStopsAtZero ==
    [][lastOp'.op = "process_damage_events" =>
          \A e \in DOMAIN sheets :
             /\ sheets'[e].hit_points.current =
                    AtLeast(sheets[e].hit_points.current
                                - DamageTo(damage_events, e), 0)
             /\ sheets'[e].hit_points.current >= 0
             /\ ~is_alive(sheets'[e]) <=> sheets'[e].hit_points.current = 0]_vars

\* damage has been applied: one character is down from 10 hit points to 0
\* and is not alive, the other is wounded and alive
C18_Witness ==
    /\ lastOp = [op |-> "process_damage_events", call |-> "take_damage"]
    /\ \E e \in DOMAIN sheets, other \in DOMAIN sheets :
          /\ sheets[e].hit_points = [current |-> 0, maximum |-> 10]
          /\ ~is_alive(sheets[e])
          /\ sheets[other].hit_points.current \in 1..9
          /\ is_alive(sheets[other])

HasHit(r) == r.hit

\* C19: process_attack_events resolves each waiting attack once, against
\* the attack's target, sends no damage event for a miss and exactly one for
\* a hit, carrying the rolled damage and addressed to that target, and
\* changes no hit points; process_damage_events changes the hit points of
\* the targets of the waiting damage events only.
C19_OneDamageEventPerHit ==
    [][/\ lastOp'.op = "process_attack_events" =>
             LET hits == SelectSeq(attack_rolls', HasHit)
                 before == Len(damage_events)
             IN  /\ Len(attack_rolls') = Len(attack_events)
                 /\ \A i \in 1..Len(attack_events) :
                        /\ attack_rolls'[i].attacker = attack_events[i].attacker
                        /\ attack_rolls'[i].target = attack_events[i].target
                        /\ attack_rolls'[i].weapon = attack_events[i].weapon
                 /\ Len(damage_events') = before + Len(hits)
                 /\ SubSeq(damage_events', 1, before) = damage_events
                 /\ \A i \in 1..Len(hits) :
                        damage_events'[before + i] =
                            [target |-> hits[i].target,
                             damage |-> hits[i].damage,
                             damage_type |-> "Slashing"]
                 /\ sheets' = sheets
       /\ lastOp'.op = "process_damage_events" =>
             \A e \in DOMAIN sheets :
                (\A i \in 1..Len(damage_events) : damage_events[i].target # e)
                    => sheets'[e] = sheets[e]]_vars

\* an attack has been resolved as a hit and its damage event waits
C19_Witness ==
    /\ lastOp.op = "process_attack_events"
    /\ Len(attack_rolls) = 1
    /\ attack_rolls[1].hit
    /\ damage_events = <<[target |-> attack_rolls[1].target,
                          damage |-> attack_rolls[1].damage,
                          damage_type |-> "Slashing"]>>
    /\ attack_rolls[1].damage >= 1

\* ------------------------------------------------------ the status ledger
Outlasts(effect) == effect.duration # 1

\* C20: a completed status-effect pass leaves, for every combatant, the
\* effects whose duration was not 1, in their order, each effect that had a
\* duration d > 1 with d - 1; no stored effect has duration 0 after it.
C20_PassDecrementsAndDropsExpired ==
    [][lastOp'.op = "update_status_effects" /\ ~panicked' =>
          \A e \in DOMAIN status_effects :
             LET kept == SelectSeq(status_effects[e], Outlasts)
                 after == status_effects'[e]
             IN  /\ Len(after) = Len(kept)
                 /\ \A i \in 1..Len(kept) :
                        /\ after[i].name = kept[i].name
                        /\ kept[i].duration > 1 =>
                               after[i].duration = kept[i].duration - 1
                        /\ after[i].duration # 0]_vars

\* a pass has run: one combatant holds a single effect with a duration no
\* effect starts with, the other holds none
C20_Witness ==
    /\ lastOp.op = "update_status_effects"
    /\ ~panicked
    /\ \E e \in Entities, other \in Entities :
          /\ Len(status_effects[e]) = 1
          /\ status_effects[e][1].duration = MaxDuration - 1
          /\ status_effects[other] = <<>>

\* C21: the status pass runs once per round boundary: when the round counter
\* has advanced r times, every effect inflicted with duration d at round 1
\* has been decremented at most r times, and is still in the ledger while
\* r < d.
C21_PassRunsOncePerRound ==
    \A e \in DOMAIN status_effects :
        /\ combat.round - 1 < MaxDuration => status_effects[e] # <<>>
        /\ \A i \in 1..Len(status_effects[e]) :
              status_effects[e][i].duration >= MaxDuration - (combat.round - 1)

\* ------------------------------------------------------- ability scores
\* the documented table for strength and dexterity, and for constitution
TableModifier(score) ==
    CASE score = 3 -> -3
      [] score \in {4, 5} -> -2
      [] score \in {6, 7, 8} -> -1
      [] score \in {9, 10, 11, 12} -> 0
      [] score \in {13, 14, 15} -> 1
      [] score \in {16, 17} -> 2
      [] score = 18 -> 3
      [] OTHER -> 0

TableConstitution(score) ==
    CASE score = 3 -> -2
      [] score \in {4, 5, 6, 7, 8} -> -1
      [] score \in {9, 10, 11, 12} -> 0
      [] score \in {13, 14, 15} -> 1
      [] score \in {16, 17, 18} -> 2
      [] OTHER -> 0

\* C22: for every score 0..255 the strength, dexterity and constitution
\* modifiers are those of the documented table, 0 outside 3..18.
C22_ModifiersMatchTheTable ==
    ability.computed =>
        /\ ability.strength_modifier = TableModifier(ability.score)
        /\ ability.dexterity_modifier = TableModifier(ability.score)
        /\ ability.constitution_modifier = TableConstitution(ability.score)
        /\ ability.score \notin 3..18 =>
               /\ ability.strength_modifier = 0
               /\ ability.dexterity_modifier = 0
               /\ ability.constitution_modifier = 0

\* the modifiers of a score of 18 have been computed
C22_Witness ==
    /\ ability.computed
    /\ ability.score = 18
    /\ ability.strength_modifier = 3
    /\ ability.dexterity_modifier = 3
    /\ ability.constitution_modifier = 2

\* C23: at each score in {4, 5, 6, 7, 8, 18} the constitution modifier
\* differs from the strength modifier, which equals the dexterity modifier.
C23_ConstitutionDivergesAtSixScores ==
    ability.computed /\ ability.score \in {4, 5, 6, 7, 8, 18} =>
        /\ ability.constitution_modifier # ability.strength_modifier
        /\ ability.strength_modifier = ability.dexterity_modifier

\* C23, amended: the strength and dexterity modifiers agree at every score,
\* and the constitution modifier differs from them exactly at the scores
\* 3, 4, 5 and 18.
C23_ConstitutionDivergesAtFourScores ==
    ability.computed =>
        /\ ability.strength_modifier = ability.dexterity_modifier
        /\ ability.constitution_modifier # ability.strength_modifier
               <=> ability.score \in {3, 4, 5, 18}

\* the modifiers of a score of 7 have been computed and are all -1
C23_Witness ==
    /\ ability.computed
    /\ ability.score = 7
    /\ ability.constitution_modifier = -1
    /\ ability.strength_modifier = -1

\* ------------------------------------------------------ missing entities
\* C24: an operation that names a combatant the queries no longer hold
\* skips it; no operation panics.
C24_NoOperationPanics == ~panicked

\* ------------------------------------------------------ attack resolution
ArmorClassRange == -128..127    \* armor_class is an i8

\* C25: for the d20 and attack bonus of a roll, a miss stays a miss against
\* every higher armor class and a hit stays a hit against every lower one.
C25_HitIsMonotonicInArmorClass ==
    \A r \in Rolls :
        \A armor_class \in ArmorClassRange :
            /\ ~r.hit /\ armor_class > sheets[r.target].armor_class
                   => ~is_hit(r.total_attack, armor_class)
            /\ r.hit /\ armor_class < sheets[r.target].armor_class
                   => is_hit(r.total_attack, armor_class)

\* a roll has missed by one: it hits the armor class just below the target's
C25_Witness ==
    \E r \in Rolls :
        /\ ~r.hit
        /\ r.total_attack = sheets[r.target].armor_class - 1
        /\ is_hit(r.total_attack, sheets[r.target].armor_class - 1)

\* ------------------------------------------------------ the turn handler
\* C26: a tick in EnemyTurn with a non-player current combatant that has
\* actions left performs the AI action and takes exactly one action from
\* it, without advancing the turn; with no action left it advances the turn
\* and takes nothing.
C26_EnemyActsOncePerTick ==
    [][/\ combat.state = "EnemyTurn"
       /\ lastOp'.op = "tick"
       /\ combat.current_combatant \in DOMAIN characters
       /\ ~characters[combat.current_combatant].is_player
       => LET current == combat.current_combatant
              k == characters[current].actions_remaining
          IN  IF k > 0
              THEN /\ lastOp'.call = "perform_ai_action"
                   /\ characters' =
                          [characters EXCEPT ![current].actions_remaining = k - 1]
                   /\ combat' = combat
              ELSE /\ lastOp'.call = "next_turn"
                   /\ combat'.turn = combat.turn + 1
                   /\ characters' = characters
                   /\ attack_events' = attack_events]_vars

\* an enemy has spent its last action on an attack and a later tick has
\* advanced the turn
C26_Witness ==
    /\ lastOp = [op |-> "tick", call |-> "next_turn"]
    /\ combat.state = "EnemyTurn"
    /\ combat.turn = 2
    /\ Len(attack_events) = 1
    /\ attack_events[1].attacker \in DOMAIN characters
    /\ ~characters[attack_events[1].attacker].is_player
    /\ characters[attack_events[1].attacker].actions_remaining = 0

\* ------------------------------------------------------- Combat's methods
\* C27: a new session has round 1 (and turn 1), phase Initiative, no
\* combatants, an empty initiative order and no current combatant;
\* add_combatant appends one id to the combatants and changes nothing else.
C27_NewIsEmptyAndAddOnlyAppends ==
    /\ combat.round = 1
    /\ combat.turn = 1
    /\ combat.state = "Initiative"
    /\ combat.combatants = <<>>
    /\ combat.initiative_order = <<>>
    /\ combat.current_combatant = None
    /\ [][lastOp'.op = "add_combatant" =>
             /\ Len(combat'.combatants) = Len(combat.combatants) + 1
             /\ SubSeq(combat'.combatants, 1, Len(combat.combatants))
                    = combat.combatants
             /\ combat'.combatants[Len(combat'.combatants)] \in Entities
             /\ combat'.round = combat.round
             /\ combat'.turn = combat.turn
             /\ combat'.state = combat.state
             /\ combat'.initiative_order = combat.initiative_order
             /\ combat'.current_combatant = combat.current_combatant]_vars

\* entity 2 and then entity 1 have been added to a new session
C27_Witness ==
    /\ lastOp.op = "add_combatant"
    /\ combat = [round |-> 1, turn |-> 1, combatants |-> <<2, 1>>,
                 initiative_order |-> <<>>, current_combatant |-> None,
                 state |-> "Initiative"]

\* C28: roll_initiative gives every combatant an initiative of one d6 face
\* plus its dexterity modifier, a value in -2..9, and changes neither the
\* round, the turn nor the combatants.
C28_InitiativeIsDiePlusModifier ==
    [][lastOp'.op = "roll_initiative" /\ ~panicked' =>
          /\ \A e \in DOMAIN characters :
                /\ characters'[e].initiative
                       - TableModifier(characters[e].dexterity) \in 1..6
                /\ characters'[e].initiative \in -2..9
          /\ combat'.round = combat.round
          /\ combat'.turn = combat.turn
          /\ combat'.combatants = combat.combatants]_vars

\* a combatant with dexterity 18 has rolled a 6
C28_Witness ==
    /\ lastOp.op = "roll_initiative"
    /\ 1 \in DOMAIN characters
    /\ characters[1].dexterity = 18
    /\ characters[1].initiative = 9
    /\ combat.initiative_order = <<1, 2>>
    /\ combat.round = 1

\* ------------------------------------------------------- ability scores
Lowest(rolls) ==
    CHOOSE m \in Range(rolls) : \A i \in 1..Len(rolls) : m <= rolls[i]

\* C29: a rolled ability score is the total of its four six-sided dice
\* minus the lowest die, and lies in 3..18.
C29_ScoreDropsTheLowestDie ==
    ability.dice # <<>> =>
        /\ Len(ability.dice) = 4
        /\ \A i \in 1..4 : ability.dice[i] \in 1..6
        /\ ability.score = ability.dice[1] + ability.dice[2] + ability.dice[3]
                               + ability.dice[4] - Lowest(ability.dice)
        /\ ability.score \in 3..18

\* the dice 3, 1, 6, 2 have been rolled: the 1 is dropped
C29_Witness ==
    /\ ability.dice = <<3, 1, 6, 2>>
    /\ ability.score = 11

\* ------------------------------------------------------- Combat's methods
\* C30: from a new session on, no step lowers the turn or the round
\* counter or raises the round counter by more than 1, and the round
\* counter never exceeds the turn counter.
C30_CountersAreMonotone ==
    /\ combat.round <= combat.turn
    /\ [][/\ combat'.turn >= combat.turn
           /\ combat'.round >= combat.round
           /\ combat'.round <= combat.round + 1
           /\ combat'.round <= combat'.turn]_vars

\* the order of two combatants has wrapped once: round 2 at the third turn
C30_Witness ==
    /\ combat.round = 2
    /\ combat.turn = 3
    /\ Len(combat.initiative_order) = 2
    /\ combat.current_combatant = combat.initiative_order[1]

\* C31: after roll_initiative has ordered n >= 1 combatants, any n
\* next_turn calls in a row make every position of the order current
\* exactly once, each the successor of the one before, and add exactly 1
\* to the round counter.
C31_EveryPositionOncePerRound ==
    LET n == Len(combat.initiative_order)
    IN  n >= 1 =>
            \A s \in 1..(Len(advances) - n) :
                /\ \A p \in 0..(n - 1) :
                       Cardinality({k \in (s + 1)..(s + n) :
                                       advances[k].position = p}) = 1
                /\ \A k \in (s + 1)..(s + n) :
                       advances[k].position =
                           (advances[k - 1].position + 1) % n
                /\ advances[s + n].round = advances[s].round + 1

\* C32: from the hit points of a new character on, after any take_damage,
\* heal and level_up calls the current hit points are within 0..maximum;
\* take_damage never raises them and heal never lowers them, whatever the
\* i16 amount.
C32_HitPointsStayWithinBounds ==
    /\ [](\A e \in DOMAIN sheets :
             /\ 0 <= sheets[e].hit_points.current
             /\ sheets[e].hit_points.current <= sheets[e].hit_points.maximum)
    /\ [][\A e \in DOMAIN sheets :
             /\ lastOp'.op = "take_damage" =>
                    sheets'[e].hit_points.current
                        <= sheets[e].hit_points.current
             /\ lastOp'.op = "heal" =>
                    sheets'[e].hit_points.current
                        >= sheets[e].hit_points.current]_vars

\* ------------------------------------------------------ the status ledger
\* after is before with some effects removed and the duration of every
\* other effect lowered
RECURSIVE LoweredOrRemoved(_, _)
LoweredOrRemoved(after, before) ==
    IF after = <<>> THEN TRUE
    ELSE IF before = <<>> THEN FALSE
    ELSE \/ /\ Head(after).name = Head(before).name
            /\ Head(after).duration < Head(before).duration
            /\ LoweredOrRemoved(Tail(after), Tail(before))
         \/ LoweredOrRemoved(after, Tail(before))

\* C33: a status-effect pass never underflows a duration and never raises
\* one: whatever the stored durations, 0 included, the pass completes and
\* every effect is removed or has a strictly smaller duration after it.
C33_PassNeverUnderflows ==
    [][lastOp'.op = "update_status_effects" =>
          /\ ~panicked'
          /\ \A e \in DOMAIN status_effects :
                 LoweredOrRemoved(status_effects'[e], status_effects[e])]_vars

\* ------------------------------------------------------ the turn handler
Exhausted ==
    \A e \in DOMAIN characters : characters[e].actions_remaining = 0

\* C34: no tick, roll_initiative or next_turn raises a combatant's
\* actions_remaining or takes it below 0, and from a state where every
\* combatant has 0 actions left no step sends an attack event.
C34_ActionsOnlyRunOut ==
    [][/\ \A e \in DOMAIN characters :
             /\ characters'[e].actions_remaining
                    <= characters[e].actions_remaining
             /\ characters'[e].actions_remaining >= 0
       /\ Exhausted => attack_events' = attack_events]_vars

\* an enemy has spent its action on an attack, nobody has an action left,
\* and two more ticks of the enemy phase have each advanced the turn
C34_Witness ==
    /\ Exhausted
    /\ DOMAIN characters = Entities
    /\ combat.state = "EnemyTurn"
    /\ lastOp = [op |-> "tick", call |-> "next_turn"]
    /\ combat.turn = 3
    /\ Len(attack_events) = 1
====
